---- MODULE Spec2Model ----
(***************************************************************************)
(* OllamaReceiptOCR (src/main.py): the pipeline of process_receipt and the *)
(* functions it calls, as a state machine.                                 *)
(*                                                                         *)
(* Text is a sequence of characters, each a one-character string.  The     *)
(* backtick cannot be written inside a TLA+ string, so the name Backtick   *)
(* stands for that one character.                                          *)
(***************************************************************************)
EXTENDS Integers, Sequences, FiniteSets, TLC

VARIABLES
    pc,              \* position of the run inside process_receipt
    image_exists,    \* Path(image_path).exists()
    image_readable,  \* open(image_path, 'rb') and read() succeed
    output_csv,      \* the output_csv argument
    stages,          \* the stages that have started, in order
    image_reads,     \* number of times the image file was opened
    requests,        \* the client.chat requests issued, in order
    extracted_text,  \* result of extract_image_data
    json_response,   \* result of structure_to_json
    json_str,        \* the candidate selected by extract_json_from_response
    parse_attempts,  \* number of json.loads calls
    receipt_dict,    \* result of extract_json_from_response
    df,              \* result of create_dataframe
    csv_writes,      \* the files written by df.to_csv, in order
    printed_json,    \* what line 158 printed of the candidate
    error,           \* the exception that left process_receipt, "" if none
    returned,        \* process_receipt returned (df, receipt_dict)
    parts            \* how the text model's answer was put together

vars == <<pc, image_exists, image_readable, output_csv, stages, image_reads,
          requests, extracted_text, json_response, json_str, parse_attempts,
          receipt_dict, df, csv_writes, printed_json, error, returned, parts>>

----------------------------------------------------------------------------
(* Characters *)

Backtick == "<backtick>"
DQ == "\""
Whitespace == {" ", "\n", "\t"}
ControlChars == {"\n", "\t"}
Digits == {"0", "1", "2", "3", "4", "5", "6", "7", "8", "9"}
NonZeroDigits == Digits \ {"0"}

RECURSIVE Str(_)
Str(s) == IF s = <<>> THEN "" ELSE s[1] \o Str(Tail(s))

RECURSIVE Flatten(_)
Flatten(ss) == IF ss = <<>> THEN <<>> ELSE ss[1] \o Flatten(Tail(ss))

StartsWithAt(s, i, lit) ==
    /\ i >= 1
    /\ i + Len(lit) - 1 <= Len(s)
    /\ \A k \in 1..Len(lit) : s[i + k - 1] = lit[k]

Min(S) == CHOOSE m \in S : \A n \in S : m <= n
Max(S) == CHOOSE m \in S : \A n \in S : m >= n

\* first position >= i that holds no whitespace (Len(s) + 1 if none)
RECURSIVE SkipWs(_, _)
SkipWs(s, i) ==
    IF i > Len(s) \/ s[i] \notin Whitespace THEN i ELSE SkipWs(s, i + 1)

\* str.strip()
strip(s) ==
    LET keep == {i \in 1..Len(s) : s[i] \notin Whitespace}
    IN  IF keep = {} THEN <<>> ELSE SubSeq(s, Min(keep), Max(keep))

\* Variant of Prefix: the slice forgotten, the whole text kept.
Prefix_unsliced(s, n) == s

\* s[:n]
Prefix(s, n) == SubSeq(s, 1, IF Len(s) < n THEN Len(s) ELSE n)

----------------------------------------------------------------------------
(* The two searches of extract_json_from_response *)

Fence == <<Backtick, Backtick, Backtick>>
JsonTag == <<"j", "s", "o", "n">>

\* ``` at i
FenceAt(s, i) ==
    /\ i + 2 <= Len(s)
    /\ s[i] = Backtick
    /\ s[i + 1] = Backtick
    /\ s[i + 2] = Backtick

\* the "{" that  \s*\{  reaches from a (0 if it reaches none)
BraceAfterWs(s, b) == IF b <= Len(s) /\ s[b] = "{" THEN b ELSE 0

\* where  ```(?:json)?\s*  started at i leaves the match, at the "{" it needs
\* (0 if the pattern cannot match from i)
FenceOpenAt(s, i) ==
    IF ~FenceAt(s, i) THEN 0
    ELSE BraceAfterWs(s, SkipWs(s, IF StartsWithAt(s, i + 3, JsonTag) THEN i + 7 ELSE i + 3))

\* the "}" at e can end group 1:  \}\s*```  matches from e
FenceCloseAt(s, e) ==
    /\ e <= Len(s)
    /\ s[e] = "}"
    /\ FenceAt(s, SkipWs(s, e + 1))

\* the ends of group 1 that  (\{.*?\})\s*```  allows for a group starting at b
FenceEnds(s, b) == {e \in (b + 1)..Len(s) : FenceCloseAt(s, e)}

\* the whole fenced pattern matches with group 1 starting at b
FenceMatchFrom(s, b) == b # 0 /\ \E e \in (b + 1)..Len(s) : FenceCloseAt(s, e)

\* the start positions from which the whole fenced pattern matches
FenceStarts(s) ==
    {i \in 1..Len(s) : s[i] = Backtick /\ FenceMatchFrom(s, FenceOpenAt(s, i))}

\* group 1 of the match that starts at the leftmost of starts: .*? is lazy,
\* so the group ends at the first "}" that lets the rest match
FencedGroup(s, b) == SubSeq(s, b, Min(FenceEnds(s, b)))
FencedMatch(s, starts) ==
    IF starts = {} THEN [found |-> FALSE, group |-> <<>>]
    ELSE [found |-> TRUE, group |-> FencedGroup(s, FenceOpenAt(s, Min(starts)))]

\* re.search(r'```(?:json)?\s*(\{.*?\})\s*```', s, re.DOTALL)
fenced_search(s) == FencedMatch(s, FenceStarts(s))

\* Variant of bare_search: the first "{" and the last "}" taken without
\* asking that the "}" comes after the "{".
bare_search_unordered(s) ==
    LET opens  == {i \in 1..Len(s) : s[i] = "{"}
        closes == {i \in 1..Len(s) : s[i] = "}"}
    IN  IF opens # {} /\ closes # {}
        THEN [found |-> TRUE, group |-> SubSeq(s, Min(opens), Max(closes))]
        ELSE [found |-> FALSE, group |-> <<>>]

\* re.search(r'\{.*\}', s, re.DOTALL): the first "{" through the last "}"
bare_search(s) ==
    LET opens  == {i \in 1..Len(s) : s[i] = "{"}
        closes == {i \in 1..Len(s) : s[i] = "}"}
    IN  IF opens # {} /\ closes # {} /\ Max(closes) > Min(opens)
        THEN [found |-> TRUE, group |-> SubSeq(s, Min(opens), Max(closes))]
        ELSE [found |-> FALSE, group |-> <<>>]

\* lines 140-150: the candidate, or none
FirstFound(fenced, s) == IF fenced.found THEN fenced ELSE bare_search(s)

\* Variant of find_candidate: the fenced search left out.
find_candidate_bare_only(s) == bare_search(s)

find_candidate(s) == FirstFound(fenced_search(s), s)

----------------------------------------------------------------------------
(* json.loads, over the characters the modelled answers use *)

None == [type |-> "null", text |-> <<>>]

Bad == [ok |-> FALSE, next |-> 0, val |-> None, pairs |-> <<>>]
Good(n, v, ps) == [ok |-> TRUE, next |-> n, val |-> v, pairs |-> ps]

\* a string literal whose opening quote is at i; a raw control character
\* inside it is an error (strict mode)
ParseString(s, i) ==
    LET quotes == {j \in (i + 1)..Len(s) : s[j] = DQ}
    IN  IF quotes = {} THEN Bad
        ELSE LET j == Min(quotes)
             IN  IF \E k \in (i + 1)..(j - 1) : s[k] \in ControlChars THEN Bad
                 ELSE Good(j + 1, [type |-> "string", text |-> SubSeq(s, i + 1, j - 1)], <<>>)

\* end of the run of digits that starts at i (i - 1 if there is none)
RECURSIVE DigitsEnd(_, _)
DigitsEnd(s, i) ==
    IF i > Len(s) \/ s[i] \notin Digits THEN i - 1 ELSE DigitsEnd(s, i + 1)

\* -?(0|[1-9]\d*)(\.\d+)?([eE][-+]?\d+)?  at i
ParseNumber(s, i) ==
    LET a  == IF i <= Len(s) /\ s[i] = "-" THEN i + 1 ELSE i
        ie == IF a > Len(s) THEN a - 1
              ELSE IF s[a] = "0" THEN a
              ELSE IF s[a] \in NonZeroDigits THEN DigitsEnd(s, a)
              ELSE a - 1
        fe == IF ie + 1 <= Len(s) /\ s[ie + 1] = "." /\ DigitsEnd(s, ie + 2) >= ie + 2
              THEN DigitsEnd(s, ie + 2) ELSE ie
        sg == IF fe + 2 <= Len(s) /\ s[fe + 2] \in {"+", "-"} THEN fe + 3 ELSE fe + 2
        ee == IF fe + 1 <= Len(s) /\ s[fe + 1] \in {"e", "E"} /\ DigitsEnd(s, sg) >= sg
              THEN DigitsEnd(s, sg) ELSE fe
    IN  IF ie < a THEN Bad
        ELSE Good(ee + 1, [type |-> "number", text |-> SubSeq(s, i, ee)], <<>>)

ParseLiteral(s, i) ==
    IF StartsWithAt(s, i, <<"n", "u", "l", "l">>) THEN Good(i + 4, None, <<>>)
    ELSE IF StartsWithAt(s, i, <<"t", "r", "u", "e">>)
    THEN Good(i + 4, [type |-> "boolean", text |-> <<"t", "r", "u", "e">>], <<>>)
    ELSE IF StartsWithAt(s, i, <<"f", "a", "l", "s", "e">>)
    THEN Good(i + 5, [type |-> "boolean", text |-> <<"f", "a", "l", "s", "e">>], <<>>)
    ELSE Bad

RECURSIVE ParseValue(_, _), ParseMembers(_, _, _), ParseElements(_, _)

\* a value that starts at i
ParseValue(s, i) ==
    IF i > Len(s) THEN Bad
    ELSE IF s[i] = DQ THEN ParseString(s, i)
    ELSE IF s[i] = "{" THEN
        LET j == SkipWs(s, i + 1)
            r == IF j <= Len(s) /\ s[j] = "}" THEN Good(j + 1, None, <<>>)
                 ELSE ParseMembers(s, j, <<>>)
        IN  IF r.ok
            THEN Good(r.next, [type |-> "object", text |-> SubSeq(s, i, r.next - 1)], r.pairs)
            ELSE Bad
    ELSE IF s[i] = "[" THEN
        LET j == SkipWs(s, i + 1)
            r == IF j <= Len(s) /\ s[j] = "]" THEN Good(j + 1, None, <<>>)
                 ELSE ParseElements(s, j)
        IN  IF r.ok
            THEN Good(r.next, [type |-> "array", text |-> SubSeq(s, i, r.next - 1)], <<>>)
            ELSE Bad
    ELSE IF s[i] \in Digits \cup {"-"} THEN ParseNumber(s, i)
    ELSE ParseLiteral(s, i)

\* "key" : value, then "," and another member, or "}"
ParseMembers(s, i, acc) ==
    IF i > Len(s) \/ s[i] # DQ THEN Bad
    ELSE LET k == ParseString(s, i)
         IN  IF ~k.ok THEN Bad
             ELSE LET c == SkipWs(s, k.next)
                  IN  IF c > Len(s) \/ s[c] # ":" THEN Bad
                      ELSE LET v == ParseValue(s, SkipWs(s, c + 1))
                           IN  IF ~v.ok THEN Bad
                               ELSE LET e   == SkipWs(s, v.next)
                                        got == Append(acc, <<Str(k.val.text), v.val>>)
                                    IN  IF e > Len(s) THEN Bad
                                        ELSE IF s[e] = "}" THEN Good(e + 1, None, got)
                                        ELSE IF s[e] = ","
                                        THEN ParseMembers(s, SkipWs(s, e + 1), got)
                                        ELSE Bad

\* value, then "," and another element, or "]"
ParseElements(s, i) ==
    LET v == ParseValue(s, i)
    IN  IF ~v.ok THEN Bad
        ELSE LET e == SkipWs(s, v.next)
             IN  IF e > Len(s) THEN Bad
                 ELSE IF s[e] = "]" THEN Good(e + 1, None, <<>>)
                 ELSE IF s[e] = "," THEN ParseElements(s, SkipWs(s, e + 1))
                 ELSE Bad

\* dict(pairs): a later pair with the same key replaces an earlier one
DictOf(pairs) ==
    [k \in {pairs[n][1] : n \in 1..Len(pairs)} |->
        pairs[Max({n \in 1..Len(pairs) : pairs[n][1] = k})][2]]

EmptyDict == [k \in {} |-> None]

\* json.loads(s): the whole of s is one value; [ok, dict]
json_loads(s) ==
    LET v == ParseValue(s, SkipWs(s, 1))
    IN  IF v.ok /\ SkipWs(s, v.next) = Len(s) + 1
        THEN [ok |-> TRUE, dict |-> DictOf(v.pairs)]
        ELSE [ok |-> FALSE, dict |-> EmptyDict]

----------------------------------------------------------------------------
(* The answers of the two models: the inputs of the run *)

MaxProse == 2
MaxMembers == 2
PadLen == 600

SeqsUpTo(S, n) == UNION {[1..k -> S] : k \in 0..n}

\* text around the JSON: ordinary characters, braces, fences
ProseAtoms == {<<"x">>, <<"{">>, <<"}">>, Fence}
Prose == {Flatten(p) : p \in SeqsUpTo(ProseAtoms, MaxProse)}

\* a long tail that ends in a brace
LongTail == [i \in 1..PadLen |-> "x"] \o <<"}">>
Trailers == {<<>>, <<"}">>, Fence, LongTail}

MemberMatricula ==
    <<DQ, "M", "a", "t", "r", "i", "c", "u", "l", "a", DQ, ":", " ", DQ, "1",
    "2", "3", "4", "5", DQ>>

MemberArea ==
    <<DQ, "A", "r", "e", "a", "_", "T", "e", "r", "r", "e", "n", "o", DQ, ":",
    "2", "5", "0">>

MemberCartorio ==
    <<DQ, "C", "a", "r", "t", "o", "r", "i", "o", DQ, ":", "{", DQ, "L", "i",
    "v", "r", "o", DQ, ":", DQ, "2", DQ, "}">>

\* a string value that holds a brace and a fence
MemberObservacoes ==
    <<DQ, "O", "b", "s", "e", "r", "v", "a", "c", "o", "e", "s", DQ, ":", DQ, "x", "}">> \o Fence \o <<DQ>>

MemberKinds == {MemberMatricula, MemberArea, MemberCartorio, MemberObservacoes}

\* the members used where the text around the object varies as well
TextMemberKinds == {MemberMatricula, MemberCartorio, MemberObservacoes}

\* "}" closes an object; ",}" is the trailing comma json.loads rejects
Closers == {<<"}">>, <<",", "}">>}

RECURSIVE Join(_)
Join(ms) ==
    IF ms = <<>> THEN <<>>
    ELSE IF Len(ms) = 1 THEN ms[1]
    ELSE ms[1] \o <<",">> \o Join(Tail(ms))

ObjectText(p) == <<"{">> \o Join(p.members) \o p.closer

Body(p) ==
    IF p.wrap = "none" THEN <<>>
    ELSE IF p.wrap = "bare" THEN ObjectText(p)
    ELSE IF p.wrap = "fence" THEN Fence \o ObjectText(p) \o Fence
    ELSE Fence \o JsonTag \o <<"\n">> \o ObjectText(p) \o <<"\n">> \o Fence

Answer(p) == p.pre \o Body(p) \o p.post

NoParts == [pre |-> <<>>, wrap |-> "none", members |-> <<>>, closer |-> <<"}">>, post |-> <<>>]

Answers(pres, kinds, posts) ==
    {[pre |-> a, wrap |-> "none", members |-> <<>>, closer |-> <<"}">>, post |-> z] :
        a \in pres, z \in posts}
    \cup
    {[pre |-> a, wrap |-> w, members |-> ms, closer |-> c, post |-> z] :
        a \in pres, w \in {"bare", "fence", "fence_json"},
        ms \in SeqsUpTo(kinds, MaxMembers), c \in Closers, z \in posts}

ScanText ==
    <<"M", "a", "t", "r", "i", "c", "u", "l", "a", ":", " ", "1", "2", "3",
    "4", "5", ",", " ", "O", "w", "n", "e", "r", ":", " ", "J", "a", "n", "e",
    " ", "D", "o", "e">>

\* what the vision model may answer
VisionAnswers == {ScanText, <<" ">>, <<"\n">> \o ScanText \o <<" ">>}

----------------------------------------------------------------------------
(* create_dataframe *)

\* receipt_dict.get(k)
Get(d, k) == IF k \in DOMAIN d THEN d[k] ELSE None

\* lines 174-188: column name, and the key read for it, in the order written
Fields == <<
    <<"Matricula", "Matricula">>,
    <<"Proprietario", "Proprietario">>,
    <<"CPF", "CPF_Proprietario">>,
    <<"Endereco_Imovel", "Endereco_Imovel">>,
    <<"Municipio", "Municipio">>,
    <<"Estado", "Estado">>,
    <<"Area_Terreno", "Area_Terreno">>,
    <<"Registro_Anterior", "Registro_Anterior">>,
    <<"Data_Registro", "Data_Registro">>,
    <<"Cartorio", "Cartorio">>,
    <<"Livro", "Livro">>,
    <<"Folha", "Folha">>,
    <<"Observacoes", "Observacoes">> >>

NoDf == [columns |-> <<>>, rows |-> <<>>]

\* Variant of DataFrameOf: the CPF column read from the key "CPF".
DataFrameOf_key_CPF(d) ==
    [columns |-> [i \in 1..Len(Fields) |-> Fields[i][1]],
     rows    |-> << [i \in 1..Len(Fields) |->
                      Get(d, IF Fields[i][1] = "CPF" THEN "CPF" ELSE Fields[i][2])] >>]

\* Variant of DataFrameOf: get(k, '') in place of get(k).
DataFrameOf_default_empty(d) ==
    [columns |-> [i \in 1..Len(Fields) |-> Fields[i][1]],
     rows    |-> << [i \in 1..Len(Fields) |->
                      IF Fields[i][2] \in DOMAIN d THEN d[Fields[i][2]]
                      ELSE [type |-> "string", text |-> <<>>]] >>]

\* Variant of DataFrameOf: every value that is not null turned into a string.
DataFrameOf_as_str(d) ==
    [columns |-> [i \in 1..Len(Fields) |-> Fields[i][1]],
     rows    |-> << [i \in 1..Len(Fields) |->
                      IF Get(d, Fields[i][2]) = None THEN None
                      ELSE [type |-> "string", text |-> Get(d, Fields[i][2]).text]] >>]

\* pd.DataFrame([{...}]): the columns are the keys of the one dict, in the
\* order they were written; its values are the one row
DataFrameOf(d) ==
    [columns |-> [i \in 1..Len(Fields) |-> Fields[i][1]],
     rows    |-> << [i \in 1..Len(Fields) |-> Get(d, Fields[i][2])] >>]

----------------------------------------------------------------------------
(* The run of process_receipt *)

vision_model == "llama3.2-vision"
text_model == "llama3"

\* if output_csv:  (None and "" are both false)
NoPath == "<None>"
OutputPaths == {NoPath, "", "out.csv"}
Truthy(path) == path \notin {NoPath, ""}

\* Variant of Fail: the "raise" of line 69 left out, so a failed extraction
\* is printed and the run goes on.
Fail_extract_not_raised(kind) ==
    /\ error' = kind
    /\ pc' = IF kind = "ExtractionFailed" THEN "structure" ELSE "failed"

\* an exception leaves process_receipt
Fail(kind) ==
    /\ error' = kind
    /\ pc' = "failed"

\* Variant of chat: a failed request is sent a second time.
chat_retried(model, images, ok) ==
    requests' = IF ok THEN Append(requests, [model |-> model, images |-> images, ok |-> ok])
                ELSE requests \o << [model |-> model, images |-> images, ok |-> ok],
                                    [model |-> model, images |-> images, ok |-> ok] >>

\* self.client.chat(model=..., messages=[...], options=...)
chat(model, images, ok) ==
    requests' = Append(requests, [model |-> model, images |-> images, ok |-> ok])

\* Variant of validate_file: the existence check left out.
validate_file_unchecked ==
    /\ pc = "validate"
    /\ stages' = Append(stages, "Validate")
    /\ pc' = "extract"
    /\ UNCHANGED <<image_exists, image_readable, output_csv, image_reads, requests,
                   extracted_text, json_response, json_str, parse_attempts,
                   receipt_dict, df, csv_writes, printed_json, error, returned, parts>>

\* Variant of validate_file: the output file created before the pipeline runs.
validate_file_output_opened ==
    /\ pc = "validate"
    /\ stages' = Append(stages, "Validate")
    /\ csv_writes' = IF Truthy(output_csv)
                     THEN Append(csv_writes, [path |-> output_csv, header |-> <<>>, lines |-> <<>>])
                     ELSE csv_writes
    /\ IF image_exists
       THEN pc' = "extract" /\ UNCHANGED error
       ELSE Fail("FileNotFound")
    /\ UNCHANGED <<image_exists, image_readable, output_csv, image_reads, requests,
                   extracted_text, json_response, json_str, parse_attempts,
                   receipt_dict, df, printed_json, returned, parts>>

\* lines 204-206
validate_file ==
    /\ pc = "validate"
    /\ stages' = Append(stages, "Validate")
    /\ IF image_exists
       THEN pc' = "extract" /\ UNCHANGED error
       ELSE Fail("FileNotFound")
    /\ UNCHANGED <<image_exists, image_readable, output_csv, image_reads, requests,
                   extracted_text, json_response, json_str, parse_attempts,
                   receipt_dict, df, csv_writes, printed_json, returned, parts>>

\* lines 31-69, called at line 209: the file is read first; the request is
\* issued only when the read succeeded; every exception is raised again
extract_image_data ==
    /\ pc = "extract"
    /\ stages' = Append(stages, "Extract")
    /\ image_reads' = image_reads + 1
    /\ IF ~image_readable
       THEN /\ Fail("ExtractionFailed")
            /\ UNCHANGED <<requests, extracted_text>>
       ELSE \/ /\ chat(vision_model, 1, FALSE)
               /\ Fail("ExtractionFailed")
               /\ UNCHANGED extracted_text
            \/ \E content \in VisionAnswers :
               /\ chat(vision_model, 1, TRUE)
               /\ extracted_text' = strip(content)
               /\ pc' = "structure"
               /\ UNCHANGED error
    /\ UNCHANGED <<image_exists, image_readable, output_csv, json_response, json_str,
                   parse_attempts, receipt_dict, df, csv_writes, printed_json,
                   returned, parts>>

\* lines 71-125, called at line 210
structure_to_json ==
    /\ pc = "structure"
    /\ stages' = Append(stages, "Structure")
    /\ \/ /\ chat(text_model, 0, FALSE)
          /\ Fail("StructuringFailed")
          /\ UNCHANGED <<json_response, parts>>
       \/ \E p \in Answers({<<>>}, MemberKinds, {<<>>}), pad \in {<<>>, <<"\n">>} :
          /\ chat(text_model, 0, TRUE)
          /\ parts' = p
          /\ json_response' = strip(pad \o Answer(p) \o pad)
          /\ pc' = "recover"
          /\ UNCHANGED error
    /\ UNCHANGED <<image_exists, image_readable, output_csv, image_reads,
                   extracted_text, json_str, parse_attempts, receipt_dict, df,
                   csv_writes, printed_json, returned>>

ExcerptLen == 500

\* lines 127-159, called at line 211
extract_json_from_response ==
    /\ pc = "recover"
    /\ stages' = Append(stages, "Recover")
    /\ \E json_match \in {find_candidate(json_response)} :
         IF ~json_match.found
         THEN /\ Fail("NoJsonFound")
              /\ UNCHANGED <<json_str, parse_attempts, receipt_dict, printed_json>>
         ELSE /\ json_str' = json_match.group
              /\ parse_attempts' = parse_attempts + 1
              /\ \E loaded \in {json_loads(json_match.group)} :
                   IF loaded.ok
                   THEN /\ receipt_dict' = loaded.dict
                        /\ pc' = "build"
                        /\ UNCHANGED <<printed_json, error>>
                   ELSE /\ printed_json' = Prefix(json_match.group, ExcerptLen)
                        /\ Fail("JsonParseError")
                        /\ UNCHANGED receipt_dict
    /\ UNCHANGED <<image_exists, image_readable, output_csv, image_reads, requests,
                   extracted_text, json_response, df, csv_writes, returned, parts>>

\* lines 161-191, called at line 212
create_dataframe ==
    /\ pc = "build"
    /\ stages' = Append(stages, "Build")
    /\ df' = DataFrameOf(receipt_dict)
    /\ pc' = "save"
    /\ UNCHANGED <<image_exists, image_readable, output_csv, image_reads, requests,
                   extracted_text, json_response, json_str, parse_attempts,
                   receipt_dict, csv_writes, printed_json, error, returned, parts>>

\* lines 215-217: df.to_csv(output_csv, index=False) writes the header and
\* the row, or raises
save_csv ==
    /\ pc = "save"
    /\ IF Truthy(output_csv)
       THEN /\ stages' = Append(stages, "Persist")
            /\ \/ /\ csv_writes' = Append(csv_writes,
                        [path |-> output_csv, header |-> df.columns, lines |-> df.rows])
                  /\ pc' = "return"
                  /\ UNCHANGED error
               \/ /\ Fail("PersistFailed")
                  /\ UNCHANGED csv_writes
       ELSE /\ pc' = "return"
            /\ UNCHANGED <<stages, csv_writes, error>>
    /\ UNCHANGED <<image_exists, image_readable, output_csv, image_reads, requests,
                   extracted_text, json_response, json_str, parse_attempts,
                   receipt_dict, df, printed_json, returned, parts>>

\* line 219
return_result ==
    /\ pc = "return"
    /\ returned' = TRUE
    /\ pc' = "done"
    /\ UNCHANGED <<image_exists, image_readable, output_csv, stages, image_reads,
                   requests, extracted_text, json_response, json_str, parse_attempts,
                   receipt_dict, df, csv_writes, printed_json, error, parts>>

\* nothing has run yet
Fresh ==
    /\ stages = <<>>
    /\ image_reads = 0
    /\ requests = <<>>
    /\ extracted_text = <<>>
    /\ json_str = <<>>
    /\ parse_attempts = 0
    /\ df = NoDf
    /\ csv_writes = <<>>
    /\ printed_json = <<>>
    /\ error = ""
    /\ returned = FALSE

\* process_receipt(image_path, output_csv) is called; a file that does not
\* exist cannot be read
Init ==
    /\ pc = "validate"
    /\ image_exists \in BOOLEAN
    /\ image_readable \in BOOLEAN
    /\ image_readable => image_exists
    /\ output_csv \in OutputPaths
    /\ json_response = <<>>
    /\ receipt_dict = EmptyDict
    /\ parts = NoParts
    /\ Fresh

Next ==
    \/ validate_file
    \/ extract_image_data
    \/ structure_to_json
    \/ extract_json_from_response
    \/ create_dataframe
    \/ save_csv
    \/ return_result

Spec == Init /\ [][Next]_vars

----------------------------------------------------------------------------
(* extract_json_from_response alone, over the response strings *)

InitRecover ==
    /\ pc = "recover"
    /\ image_exists = TRUE
    /\ image_readable = TRUE
    /\ output_csv = NoPath
    /\ parts \in Answers(Prose, TextMemberKinds, Trailers)
    /\ json_response = Answer(parts)
    /\ receipt_dict = EmptyDict
    /\ Fresh

NextRecover == extract_json_from_response

SpecRecover == InitRecover /\ [][NextRecover]_vars

----------------------------------------------------------------------------
(* create_dataframe alone, over the parsed mappings *)

MaxVariant == 2

\* the thirteen keys the prompt of structure_to_json asks for (lines 86-98)
KnownKeys == {"Matricula", "Proprietario", "CPF_Proprietario", "Endereco_Imovel",
              "Municipio", "Estado", "Area_Terreno", "Registro_Anterior",
              "Data_Registro", "Cartorio", "Livro", "Folha", "Observacoes"}

\* keys a model may add; "CPF" is the name of a column, not of a key
UnknownKeys == {"CPF", "Nota"}

JsonTypes == <<"string", "number", "null", "boolean", "array", "object">>

\* the value under key k: its text names the key, so the values of two keys
\* differ, and its type changes from key to key and with the variant
ValueOf(k, variant) ==
    LET t == JsonTypes[((Len(k) + variant) % Len(JsonTypes)) + 1]
    IN  IF t = "null" THEN None ELSE [type |-> t, text |-> <<k>>]

Mappings ==
    {[k \in known \cup unknown |-> ValueOf(k, v)] :
        known \in SUBSET KnownKeys,
        unknown \in {{}, {"CPF"}, UnknownKeys},
        v \in 1..MaxVariant}

InitBuild ==
    /\ pc = "build"
    /\ image_exists = TRUE
    /\ image_readable = TRUE
    /\ output_csv = NoPath
    /\ parts = NoParts
    /\ json_response = <<>>
    /\ receipt_dict \in Mappings
    /\ Fresh

NextBuild == create_dataframe

SpecBuild == InitBuild /\ [][NextBuild]_vars

----------------------------------------------------------------------------
(* Properties *)

Range(s) == {s[i] : i \in 1..Len(s)}

IsPrefix(a, b) == Len(a) <= Len(b) /\ \A i \in 1..Len(a) : a[i] = b[i]

StageOrder == <<"Validate", "Extract", "Structure", "Recover", "Build", "Persist">>

\* the stage in which each failure arises
StageOf(kind) ==
    IF kind = "FileNotFound" THEN "Validate"
    ELSE IF kind = "ExtractionFailed" THEN "Extract"
    ELSE IF kind = "StructuringFailed" THEN "Structure"
    ELSE IF kind \in {"NoJsonFound", "JsonParseError"} THEN "Recover"
    ELSE "Persist"

\* the thirteen column names of the Output Row, in order
ColumnOrder == <<"Matricula", "Proprietario", "CPF", "Endereco_Imovel", "Municipio",
                 "Estado", "Area_Terreno", "Registro_Anterior", "Data_Registro",
                 "Cartorio", "Livro", "Folha", "Observacoes">>

\* the key of the parsed mapping each column carries
KeyOrder == <<"Matricula", "Proprietario", "CPF_Proprietario", "Endereco_Imovel",
              "Municipio", "Estado", "Area_Terreno", "Registro_Anterior",
              "Data_Registro", "Cartorio", "Livro", "Folha", "Observacoes">>

\* s holds a "{" with a "}" somewhere after it
HasBracePair(s) ==
    \E i \in 1..Len(s) : s[i] = "{" /\ \E j \in (i + 1)..Len(s) : s[j] = "}"

\* t holds three backticks in a row
HoldsFence(t) ==
    \E i \in 1..(Len(t) - 2) : t[i] = Backtick /\ t[i + 1] = Backtick /\ t[i + 2] = Backtick

\* a "}" of obj other than its last character is followed, after optional
\* whitespace, by three backticks
FenceAfterInnerBrace(obj) ==
    \E e \in 1..(Len(obj) - 1), a \in 1..(Len(obj) - 2) :
        /\ obj[e] = "}"
        /\ a = SkipWs(obj, e + 1)
        /\ obj[a] = Backtick /\ obj[a + 1] = Backtick /\ obj[a + 2] = Backtick

\* the answer is prose without fences, then one fenced block that holds one
\* valid JSON object, then any text
FencedObjectInProse ==
    /\ parts.wrap \in {"fence", "fence_json"}
    /\ ~HoldsFence(parts.pre)
    /\ json_loads(ObjectText(parts)).ok

\* C1: a run whose image path does not exist fails with FileNotFound in
\* Validate; it issues no request to either model, does not read the image,
\* writes no output file, returns nothing and starts no later stage.
C1_MissingFileFailsBeforeAnyRequest ==
    (~image_exists /\ pc # "validate") =>
        /\ pc = "failed"
        /\ error = "FileNotFound"
        /\ requests = <<>>
        /\ image_reads = 0
        /\ csv_writes = <<>>
        /\ stages = <<"Validate">>
        /\ ~returned

C1_Witness == ~image_exists /\ pc = "failed" /\ Truthy(output_csv)

\* C2: the stages start in the order Validate, Extract, Structure, Recover,
\* Build, Persist, each at most once; a stage has started only if every
\* earlier one succeeded; after a failure the failing stage is the last one
\* started; at most two requests are issued, the vision request first, and
\* the text request only after the vision request returned successfully.
C2_StagesInOrderOnce ==
    /\ IsPrefix(stages, StageOrder)
    /\ Len(requests) <= 2
    /\ (Len(requests) >= 1 => requests[1].model = vision_model)
    /\ (Len(requests) = 2 => requests[1].ok /\ requests[2].model = text_model)
    /\ ("Extract" \in Range(stages) => image_exists)
    /\ ("Structure" \in Range(stages) => Len(requests) >= 1 /\ requests[1].ok)
    /\ ("Recover" \in Range(stages) => Len(requests) = 2 /\ requests[2].ok)
    /\ ("Build" \in Range(stages) => parse_attempts = 1 /\ json_loads(json_str).ok)
    /\ ("Persist" \in Range(stages) => df # NoDf)
    /\ (pc = "failed" <=> error # "")
    /\ (error # "" => stages # <<>> /\ stages[Len(stages)] = StageOf(error))

C2_Witness ==
    /\ pc = "done"
    /\ stages = StageOrder
    /\ Len(requests) = 2

\* C3: a run that fails in Validate, Extract, Structure or Recover returns
\* no Output Row and writes no output file, also when an output path was
\* given; no failed run returns; the output file is written at most once,
\* and only after Build has produced the row it holds.
C3_FailedRunWritesNothing ==
    /\ (error \in {"FileNotFound", "ExtractionFailed", "StructuringFailed",
                   "NoJsonFound", "JsonParseError"} =>
            ~returned /\ df = NoDf /\ csv_writes = <<>>)
    /\ (error # "" => ~returned)
    /\ Len(csv_writes) <= 1
    /\ (csv_writes # <<>> =>
            /\ "Build" \in Range(stages)
            /\ Truthy(output_csv)
            /\ df = DataFrameOf(receipt_dict)
            /\ csv_writes[1].header = df.columns
            /\ csv_writes[1].lines = df.rows)

C3_Witness ==
    /\ pc = "failed"
    /\ error = "JsonParseError"
    /\ Truthy(output_csv)

\* C4: for every parsed mapping create_dataframe gives exactly one row of
\* thirteen values under the thirteen fixed column names in their fixed
\* order, whatever keys the mapping holds, and the CPF column carries the
\* value of the key CPF_Proprietario.
C4_FixedColumns ==
    pc # "build" =>
        /\ df.columns = ColumnOrder
        /\ Len(df.rows) = 1
        /\ Len(df.rows[1]) = Len(ColumnOrder)
        /\ df.rows[1][3] = Get(receipt_dict, "CPF_Proprietario")

C4_Witness ==
    /\ pc = "save"
    /\ {"CPF", "CPF_Proprietario"} \subseteq DOMAIN receipt_dict
    /\ "Matricula" \notin DOMAIN receipt_dict
    /\ receipt_dict["CPF"] # receipt_dict["CPF_Proprietario"]

\* C5: create_dataframe can be applied to every parsed mapping and raises
\* nothing; a field whose key is missing is null, a field whose key is
\* present holds the mapping's value, and keys outside the thirteen change
\* nothing.
C5_TotalOverMappings ==
    /\ (pc = "build" => ENABLED create_dataframe)
    /\ (pc # "build" =>
            /\ error = ""
            /\ \A i \in 1..Len(KeyOrder) :
                   df.rows[1][i] = IF KeyOrder[i] \in DOMAIN receipt_dict
                                   THEN receipt_dict[KeyOrder[i]]
                                   ELSE None
            /\ df = DataFrameOf([k \in DOMAIN receipt_dict \cap KnownKeys |-> receipt_dict[k]]))

C5_Witness ==
    /\ pc = "save"
    /\ DOMAIN receipt_dict = UnknownKeys

\* C6, as stated: whenever the answer holds a valid JSON object in a fenced
\* block with prose around it, the candidate is exactly that object and its
\* parse is returned.
C6_FencedObjectSelected ==
    (pc # "recover" /\ FencedObjectInProse) =>
        /\ pc = "build"
        /\ json_str = ObjectText(parts)
        /\ receipt_dict = json_loads(ObjectText(parts)).dict

\* C6, amended: the same, for fenced objects in which no "}" other than the
\* last is followed (after optional whitespace) by three backticks; the
\* prose may hold braces and the object may hold nested objects.
C6_FencedObjectSelectedUnlessFenceInside ==
    (pc # "recover" /\ FencedObjectInProse /\ ~FenceAfterInnerBrace(ObjectText(parts))) =>
        /\ pc = "build"
        /\ json_str = ObjectText(parts)
        /\ receipt_dict = json_loads(ObjectText(parts)).dict

C6_Witness ==
    /\ pc = "build"
    /\ parts.wrap = "fence_json"
    /\ parts.pre = <<"x", "{">>
    /\ parts.post = <<"}">>
    /\ parts.members = <<MemberCartorio, MemberMatricula>>
    /\ json_str = ObjectText(parts)

\* C7: a response with no "{" followed later by a "}" fails with
\* NoJsonFound; no candidate is selected, json.loads is not called and no
\* mapping is returned.
C7_NoBracePairNoJsonFound ==
    (pc # "recover" /\ ~HasBracePair(json_response)) =>
        /\ pc = "failed"
        /\ error = "NoJsonFound"
        /\ json_str = <<>>
        /\ parse_attempts = 0
        /\ receipt_dict = EmptyDict
        /\ ~returned

C7_Witness ==
    /\ pc = "failed"
    /\ json_response = <<"}", "{">>

C9_FieldsStringOrNull ==
    returned => \A i \in 1..Len(df.rows[1]) : df.rows[1][i].type \in {"string", "null"}

\* C9, amended: every field of the Output Row of a successful run is the
\* value the parsed JSON object holds under the field's key, unchanged, or
\* null when the key is absent; so it is a string or null whenever the
\* model's value for the key is a string or null.
C9_FieldsAsParsed ==
    returned =>
        \A i \in 1..Len(KeyOrder) :
            /\ df.rows[1][i] = Get(json_loads(json_str).dict, KeyOrder[i])
            /\ (Get(json_loads(json_str).dict, KeyOrder[i]).type \in {"string", "null"}
                    => df.rows[1][i].type \in {"string", "null"})

C9_Witness ==
    /\ returned
    /\ df.rows[1][1].type = "string"
    /\ df.rows[1][7].type = "number"
    /\ df.rows[1][2].type = "null"

\* C10, as stated: a run that ends in ExtractionFailed has issued exactly
\* one request, the vision request, and that request failed.
C10_ExtractionFailsOnlyInVisionCall ==
    error = "ExtractionFailed" =>
        /\ Len(requests) = 1
        /\ requests[1].model = vision_model
        /\ ~requests[1].ok

\* C10, amended: a run that ends in ExtractionFailed passed Validate and
\* either could not read the image file and issued no request, or read it
\* and issued exactly one request, the vision request, which failed.
C10_ExtractionFailsInReadOrVisionCall ==
    error = "ExtractionFailed" =>
        /\ image_exists
        /\ image_reads = 1
        /\ IF image_readable
           THEN /\ Len(requests) = 1
                /\ requests[1].model = vision_model
                /\ ~requests[1].ok
           ELSE requests = <<>>

C10_Witness ==
    /\ error = "ExtractionFailed"
    /\ ~image_readable
    /\ requests = <<>>

====
